---- MODULE Spec2Model ----
(***************************************************************************)
(* Model of src/backend.py: the Flask backend that runs submitted Python   *)
(* code (/api/run) and installs pip packages (/api/install), both behind   *)
(* the rate_limit decorator.                                               *)
(*                                                                         *)
(* The server runs with threaded=True, so every request is served by its   *)
(* own worker thread.  A thread's request walks through the decorator      *)
(* (decorated_function) and then through the handler it wraps.  The steps  *)
(* of the decorator that read or write the shared dictionary               *)
(* rate_limit_cache are separate actions, because nothing in the code      *)
(* serialises them.  Reading the list for the comprehension is one step    *)
(* (a list that is appended to while it is iterated shows the iteration    *)
(* either the old or the new length, i.e. some snapshot), and an append    *)
(* whose list object was replaced between the subscript and the call has   *)
(* the same effect on the dictionary as the append taking place before     *)
(* the replacement, which is an interleaving of the steps below.           *)
(***************************************************************************)
EXTENDS Integers, Sequences, FiniteSets, TLC

(***************************************************************************)
(* Bounds of the model.                                                    *)
(***************************************************************************)
\* worker threads serving requests at the same time
NumThreads == 2
\* requests that arrive in one behaviour when they are served one at a time
MaxArrivals == 4
\* requests that arrive in one behaviour when they are served concurrently
MaxThreadedArrivals == 3
\* the clock runs from 0 to MaxTime
MaxTime == 3
\* The two policies, scaled down (the code has 20 per 60 s and 10 per 300 s):
\* the decorator only compares a length with max_requests and an age with
\* window, so the scaled pairs keep the code's order relations
\* (install admits fewer requests over a longer window than run).
RunMaxRequests == 3
RunWindow == 2
InstallMaxRequests == 2
InstallWindow == 3

Threads == 1..NumThreads
Times == 0..MaxTime
\* request.remote_addr: the client of the requests served one at a time, and
\* the clients of the concurrent requests
OneClient == {"10.0.0.1"}
Clients == OneClient \cup {"10.0.0.2"}
Endpoints == {"run", "install"}
Methods == {"POST", "OPTIONS"}

\* @rate_limit(max_requests=..., window=...) of the two routes
Policy(ep) ==
    IF ep = "run"
    THEN [max_requests |-> RunMaxRequests, window |-> RunWindow]
    ELSE [max_requests |-> InstallMaxRequests, window |-> InstallWindow]

(***************************************************************************)
(* Strings are sequences of characters.  "a" stands for the letters and    *)
(* digits, SP and NL are white space, ";" and "/" stand for every other    *)
(* character.                                                              *)
(***************************************************************************)
SP == " "
NL == "\n"
AllowedChars == {"a", "-", "_", ".", "[", "]"}
WhiteSpace == {SP, NL}
Chars == AllowedChars \cup WhiteSpace \cup {";", "/"}

\* a prune that keeps the timestamp exactly one window old
RECURSIVE PruneInclusive(_, _, _)
PruneInclusive(s, current, w) ==
    IF s = << >> THEN << >>
    ELSE IF current - Head(s) <= w
         THEN << Head(s) >> \o PruneInclusive(Tail(s), current, w)
         ELSE PruneInclusive(Tail(s), current, w)

\* [t for t in rate_limit_cache[client_ip] if current_time - t < window]
RECURSIVE Prune(_, _, _)
Prune(s, current, w) ==
    IF s = << >> THEN << >>
    ELSE IF current - Head(s) < w
         THEN << Head(s) >> \o Prune(Tail(s), current, w)
         ELSE Prune(Tail(s), current, w)

\* str.lstrip(): drop leading white space
RECURSIVE LStrip(_)
LStrip(s) ==
    IF s = << >> THEN << >>
    ELSE IF Head(s) \in WhiteSpace THEN LStrip(Tail(s)) ELSE s

\* str.rstrip(): drop trailing white space
RECURSIVE RStrip(_)
RStrip(s) ==
    IF s = << >> THEN << >>
    ELSE IF s[Len(s)] \in WhiteSpace THEN RStrip(SubSeq(s, 1, Len(s) - 1)) ELSE s

\* str.strip()
Strip(s) == RStrip(LStrip(s))

\* every character of s is in the class [a-zA-Z0-9\-_.[\]]
AllAllowed(s) == \A i \in 1..Len(s) : s[i] \in AllowedChars

\* the pattern without its $: a first character of the class is enough
ReMatchUnanchored(s) == s # << >> /\ s[1] \in AllowedChars

\* re.match(r'^[a-zA-Z0-9\-_.[\]]+$', package): one or more characters of the
\* class up to the end of the string; $ also matches before a final newline
ReMatch(s) ==
    \/ s # << >> /\ AllAllowed(s)
    \/ /\ Len(s) >= 2
       /\ s[Len(s)] = NL
       /\ AllAllowed(SubSeq(s, 1, Len(s) - 1))

(***************************************************************************)
(* Request bodies.  get_json() either faults or yields something that is   *)
(* not a dictionary ("malformed"), or yields a dictionary whose field      *)
(* (code or package) is absent, null, a non-zero number or a string.       *)
(***************************************************************************)
CodeStrings == {<< >>, <<"a">>}
PackageStrings ==
    { << >>, <<"a">>, <<"a", "-">>, <<SP>>, <<SP, "a">>, <<"a", SP>>,
      <<"a", NL>>, <<"a", SP, "a">>, <<";">>, <<"a", ";">>, <<"/", "a">>,
      <<SP, ";">> }

FieldValues(strings) ==
    { [kind |-> k, val |-> << >>] : k \in {"missing", "null", "number"} }
    \cup { [kind |-> "str", val |-> s] : s \in strings }

Bodies(ep) ==
    { [json |-> "malformed", field |-> [kind |-> "missing", val |-> << >>]] }
    \cup { [json |-> "object", field |-> f] :
             f \in FieldValues(IF ep = "run" THEN CodeStrings ELSE PackageStrings) }

NoBody == [json |-> "unread", field |-> [kind |-> "missing", val |-> << >>]]

\* data.get(key, ''): the default for an absent key is the empty string
GetField(b) ==
    IF b.field.kind = "missing" THEN [kind |-> "str", val |-> << >>] ELSE b.field

\* a test for None in place of the truth value
TruthyNotNone(f) == f.kind \in {"number", "str"}

\* Python truth value of the field: None, '' are false, a non-zero number and a
\* non-empty string are true
Truthy(f) ==
    \/ f.kind = "number"
    \/ f.kind = "str" /\ f.val # << >>

(***************************************************************************)
(* Child processes and responses.                                          *)
(***************************************************************************)
\* what a child that exits leaves behind (subprocess.CompletedProcess)
ChildResults == [returncode : {0, 1}, stdout : {"", "out"}, stderr : {"", "err"}]
NoResult == [returncode |-> -1, stdout |-> "", stderr |-> ""]

NoResp == [status |-> 0, body |-> "none", success |-> FALSE, output |-> "", errors |-> ""]

\* jsonify({'success': ..., 'output': ..., 'errors': ...}) with a status
Json(status, success, output, errors) ==
    [status |-> status, body |-> "json", success |-> success,
     output |-> output, errors |-> errors]

\* return '', 204
EmptyResp == [status |-> 204, body |-> "empty", success |-> FALSE, output |-> "", errors |-> ""]

\* the rejection without its status
RateLimitRespNoStatus == Json(200, FALSE, "", "Rate limit exceeded")

\* return jsonify({... 'Rate limit exceeded ...'}), 429
RateLimitResp == Json(429, FALSE, "", "Rate limit exceeded")
ServerErrorResp == Json(200, FALSE, "", "Server error")
TimeoutResp(ep) ==
    Json(200, FALSE, "", IF ep = "run" THEN "Execution timeout" ELSE "Installation timeout")
\* success taken from an empty stderr instead of the return code
ResultRespByStderr(r) == Json(200, r.stderr = "", r.stdout, r.stderr)

\* jsonify({'success': result.returncode == 0, 'output': result.stdout,
\*          'errors': result.stderr})
ResultResp(r) == Json(200, r.returncode = 0, r.stdout, r.stderr)

NoReq == [client |-> "", endpoint |-> "", method |-> ""]

VARIABLES
    now,               \* time.time()
    rate_limit_cache,  \* the module-level dictionary: client address -> list of timestamps
    pc,                \* where each thread's request stands
    req,               \* the request a thread serves: client address, endpoint, method
    current_time,      \* decorated_function's local current_time
    pruned,            \* the list the comprehension built, before it is stored
    body,              \* the body the handler read
    package,           \* install_package's local: the stripped package name
    unit,              \* the temporary file of the request: "none", "exists", "removed"
    child,             \* the child process: "none", "running", "exited", "killed"
    spawns,            \* children started for the request
    produced,          \* what the child left behind when it exited
    result,            \* the CompletedProcess subprocess.run returned
    exc,               \* the exception in flight: "none", "TimeoutExpired", "Exception"
    resp,              \* the response handed to the transport layer
    admit,             \* the decorator's decision: "pending", "admitted", "rejected"
    slots,             \* history: the room left in the client's window when the request arrived
    log,               \* history: how many requests were admitted per client, endpoint, timestamp
    arrivals,          \* history: requests that have arrived
    used               \* history: the endpoints requests have arrived for

vars == << now, rate_limit_cache, pc, req, current_time, pruned, body, package, unit,
           child, spawns, produced, result, exc, resp, admit, slots, log, arrivals, used >>

\* the handler's variables (everything a thread owns past the decorator)
handlerVars == << body, package, unit, child, spawns, produced, result, exc, resp >>
\* the decorator's variables
limiterVars == << rate_limit_cache, current_time, pruned, admit, slots, log >>

Init ==
    /\ now = 0
    /\ rate_limit_cache = [c \in {} |-> << >>]
    /\ pc = [t \in Threads |-> "idle"]
    /\ req = [t \in Threads |-> NoReq]
    /\ current_time = [t \in Threads |-> 0]
    /\ pruned = [t \in Threads |-> << >>]
    /\ body = [t \in Threads |-> NoBody]
    /\ package = [t \in Threads |-> << >>]
    /\ unit = [t \in Threads |-> "none"]
    /\ child = [t \in Threads |-> "none"]
    /\ spawns = [t \in Threads |-> 0]
    /\ produced = [t \in Threads |-> NoResult]
    /\ result = [t \in Threads |-> NoResult]
    /\ exc = [t \in Threads |-> "none"]
    /\ resp = [t \in Threads |-> NoResp]
    /\ admit = [t \in Threads |-> "pending"]
    /\ slots = [t \in Threads |-> 0]
    /\ log = [k \in Clients \X Endpoints \X Times |-> 0]
    /\ arrivals = 0
    /\ used = {}

\* the clock advances
Tick ==
    /\ now < MaxTime
    /\ now' = now + 1
    /\ UNCHANGED << rate_limit_cache, pc, req, current_time, pruned, body, package, unit,
                    child, spawns, produced, result, exc, resp, admit, slots, log, arrivals, used >>

(***************************************************************************)
(* rate_limit.decorated_function                                           *)
(***************************************************************************)
\* every request keyed by one address
ClientIpShared(r) == "10.0.0.1"

\* client_ip = request.remote_addr
ClientIp(r) == r.client

\* the requests the policy of ep would still admit for client c at time at,
\* going by the dictionary
Room(c, ep, at) ==
    IF c \in DOMAIN rate_limit_cache
    THEN Policy(ep).max_requests - Len(Prune(rate_limit_cache[c], at, Policy(ep).window))
    ELSE Policy(ep).max_requests

\* a request reaches a worker thread, which reads the address and the clock
\* (the first free thread takes it: the threads are interchangeable)
Arrive(t, c, ep, m) ==
    /\ pc[t] = "idle"
    /\ \A u \in Threads : u < t => pc[u] # "idle"
    /\ arrivals' = arrivals + 1
    /\ used' = used \cup {ep}
    /\ req' = [req EXCEPT ![t] = [client |-> c, endpoint |-> ep, method |-> m]]
    /\ current_time' = [current_time EXCEPT ![t] = now]
    /\ slots' = [slots EXCEPT ![t] = Room(c, ep, now)]
    /\ pc' = [pc EXCEPT ![t] = "rl_init"]
    /\ UNCHANGED << now, rate_limit_cache, pruned, admit, log >>
    /\ UNCHANGED handlerVars

\* if client_ip not in rate_limit_cache
RLInit(t) ==
    /\ pc[t] = "rl_init"
    /\ pc' = [pc EXCEPT ![t] =
                IF ClientIp(req[t]) \in DOMAIN rate_limit_cache THEN "rl_prune" ELSE "rl_setkey"]
    /\ UNCHANGED << now, req, arrivals, used >>
    /\ UNCHANGED limiterVars
    /\ UNCHANGED handlerVars

\* rate_limit_cache[client_ip] = []
RLSetKey(t) ==
    /\ pc[t] = "rl_setkey"
    /\ rate_limit_cache' =
          [c \in DOMAIN rate_limit_cache \cup {ClientIp(req[t])} |->
              IF c = ClientIp(req[t]) THEN << >> ELSE rate_limit_cache[c]]
    /\ pc' = [pc EXCEPT ![t] = "rl_prune"]
    /\ UNCHANGED << now, req, arrivals, used, current_time, pruned, admit, slots, log >>
    /\ UNCHANGED handlerVars

\* the list comprehension reads the client's list and builds the pruned one
RLPrune(t) ==
    /\ pc[t] = "rl_prune"
    /\ pruned' = [pruned EXCEPT ![t] =
                    Prune(rate_limit_cache[ClientIp(req[t])], current_time[t],
                          Policy(req[t].endpoint).window)]
    /\ pc' = [pc EXCEPT ![t] = "rl_assign"]
    /\ UNCHANGED << now, req, arrivals, used, rate_limit_cache, current_time, admit, slots, log >>
    /\ UNCHANGED handlerVars

\* rate_limit_cache[client_ip] = <the pruned list>
RLAssign(t) ==
    /\ pc[t] = "rl_assign"
    /\ rate_limit_cache' = [rate_limit_cache EXCEPT ![ClientIp(req[t])] = pruned[t]]
    /\ pruned' = [pruned EXCEPT ![t] = << >>]
    /\ pc' = [pc EXCEPT ![t] = "rl_check"]
    /\ UNCHANGED << now, req, arrivals, used, current_time, admit, slots, log >>
    /\ UNCHANGED handlerVars

\* if len(rate_limit_cache[client_ip]) >= max_requests: return ..., 429
RLCheck(t) ==
    /\ pc[t] = "rl_check"
    /\ IF Len(rate_limit_cache[ClientIp(req[t])]) >= Policy(req[t].endpoint).max_requests
       THEN /\ admit' = [admit EXCEPT ![t] = "rejected"]
            /\ resp' = [resp EXCEPT ![t] = RateLimitResp]
            /\ pc' = [pc EXCEPT ![t] = "done"]
       ELSE /\ pc' = [pc EXCEPT ![t] = "rl_append"]
            /\ UNCHANGED << admit, resp >>
    /\ UNCHANGED << now, req, arrivals, used, rate_limit_cache, current_time, pruned, slots, log >>
    /\ UNCHANGED << body, package, unit, child, spawns, produced, result, exc >>

\* a request let through to the handler without its timestamp being recorded
RLAppendNoRecord(t) ==
    /\ pc[t] = "rl_append"
    /\ admit' = [admit EXCEPT ![t] = "admitted"]
    /\ log' = [log EXCEPT ![<<req[t].client, req[t].endpoint, current_time[t]>>] = @ + 1]
    /\ pc' = [pc EXCEPT ![t] = "handler"]
    /\ UNCHANGED << now, req, arrivals, used, rate_limit_cache, current_time, pruned, slots >>
    /\ UNCHANGED handlerVars

\* rate_limit_cache[client_ip].append(current_time); return f(*args, **kwargs)
RLAppend(t) ==
    /\ pc[t] = "rl_append"
    /\ rate_limit_cache' =
          [rate_limit_cache EXCEPT ![ClientIp(req[t])] = Append(@, current_time[t])]
    /\ admit' = [admit EXCEPT ![t] = "admitted"]
    /\ log' = [log EXCEPT ![<<req[t].client, req[t].endpoint, current_time[t]>>] = @ + 1]
    /\ pc' = [pc EXCEPT ![t] = "handler"]
    /\ UNCHANGED << now, req, arrivals, used, current_time, pruned, slots >>
    /\ UNCHANGED handlerVars

(***************************************************************************)
(* run_code and install_package                                            *)
(***************************************************************************)
\* where a request goes once subprocess.run is over: run_code's finally block,
\* install_package's return or except clauses
AfterRun(ep) == IF ep = "run" THEN "release" ELSE "respond"

\* The handler up to its validation: the OPTIONS branch, request.get_json(),
\* data.get(...), and the checks on code (run) or package (install).  A fault
\* is an exception on its way to the except clauses.
HandlerEntry(t, b) ==
    /\ pc[t] = "handler"
    /\ b \in Bodies(req[t].endpoint)
    /\ IF req[t].method = "OPTIONS"
       THEN /\ resp' = [resp EXCEPT ![t] = EmptyResp]
            /\ pc' = [pc EXCEPT ![t] = "done"]
            /\ UNCHANGED << body, package, exc >>
       ELSE /\ body' = [body EXCEPT ![t] = b]
            /\ IF b.json = "malformed"
               THEN \* get_json() raises, or data.get raises AttributeError
                    /\ exc' = [exc EXCEPT ![t] = "Exception"]
                    /\ pc' = [pc EXCEPT ![t] = "respond"]
                    /\ UNCHANGED << package, resp >>
               ELSE IF req[t].endpoint = "run"
               THEN /\ UNCHANGED << package, exc >>
                    /\ IF ~Truthy(GetField(b))
                       THEN /\ resp' = [resp EXCEPT ![t] =
                                          Json(200, FALSE, "", "No code provided")]
                            /\ pc' = [pc EXCEPT ![t] = "done"]
                       ELSE /\ pc' = [pc EXCEPT ![t] = "acquire"]
                            /\ UNCHANGED resp
               ELSE IF GetField(b).kind # "str"
               THEN \* .strip() on None or on a number raises AttributeError
                    /\ exc' = [exc EXCEPT ![t] = "Exception"]
                    /\ pc' = [pc EXCEPT ![t] = "respond"]
                    /\ UNCHANGED << package, resp >>
               ELSE /\ package' = [package EXCEPT ![t] = Strip(GetField(b).val)]
                    /\ UNCHANGED exc
                    /\ IF package'[t] = << >>
                       THEN /\ resp' = [resp EXCEPT ![t] =
                                          Json(200, FALSE, "", "No package name provided")]
                            /\ pc' = [pc EXCEPT ![t] = "done"]
                       ELSE IF ~ReMatch(package'[t])
                       THEN /\ resp' = [resp EXCEPT ![t] =
                                          Json(200, FALSE, "", "Invalid package name")]
                            /\ pc' = [pc EXCEPT ![t] = "done"]
                       ELSE /\ pc' = [pc EXCEPT ![t] = "spawn"]
                            /\ UNCHANGED resp
    /\ UNCHANGED << now, req, arrivals, used, unit, child, spawns, produced, result >>
    /\ UNCHANGED limiterVars

\* a temporary file that is deleted when the with block closes it, before the
\* child starts
AcquireUnitDeleteOnClose(t, fault) ==
    /\ pc[t] = "acquire"
    /\ fault \in {"none", "create", "write"}
    /\ GetField(body[t]).kind # "str" => fault # "none"
    /\ unit' = [unit EXCEPT ![t] = IF fault = "create" THEN "none" ELSE "removed"]
    /\ IF fault = "none"
       THEN /\ pc' = [pc EXCEPT ![t] = "spawn"]
            /\ UNCHANGED exc
       ELSE /\ exc' = [exc EXCEPT ![t] = "Exception"]
            /\ pc' = [pc EXCEPT ![t] = "respond"]
    /\ UNCHANGED << now, req, arrivals, used, body, package, child, spawns, produced, result, resp >>
    /\ UNCHANGED limiterVars

\* with tempfile.NamedTemporaryFile(mode='w', suffix='.py', delete=False) as f:
\*     f.write(code); temp_file = f.name
\* Creating the file may fault; writing may fault once the file exists, and it
\* always faults when code is not a string.  The try/finally that removes the
\* file starts after this statement.
AcquireUnit(t, fault) ==
    /\ pc[t] = "acquire"
    /\ fault \in {"none", "create", "write"}
    /\ GetField(body[t]).kind # "str" => fault # "none"
    /\ unit' = [unit EXCEPT ![t] = IF fault = "create" THEN "none" ELSE "exists"]
    /\ IF fault = "none"
       THEN /\ pc' = [pc EXCEPT ![t] = "spawn"]
            /\ UNCHANGED exc
       ELSE /\ exc' = [exc EXCEPT ![t] = "Exception"]
            /\ pc' = [pc EXCEPT ![t] = "respond"]
    /\ UNCHANGED << now, req, arrivals, used, body, package, child, spawns, produced, result, resp >>
    /\ UNCHANGED limiterVars

\* subprocess.run(...) starts the child, or faults before a child exists
Spawn(t, started) ==
    /\ pc[t] = "spawn"
    /\ IF started
       THEN /\ child' = [child EXCEPT ![t] = "running"]
            /\ spawns' = [spawns EXCEPT ![t] = @ + 1]
            /\ pc' = [pc EXCEPT ![t] = "wait"]
            /\ UNCHANGED exc
       ELSE /\ exc' = [exc EXCEPT ![t] = "Exception"]
            /\ pc' = [pc EXCEPT ![t] = AfterRun(req[t].endpoint)]
            /\ UNCHANGED << child, spawns >>
    /\ UNCHANGED << now, req, arrivals, used, body, package, unit, produced, result, resp >>
    /\ UNCHANGED limiterVars

\* The child exits before the deadline and subprocess.run returns its
\* CompletedProcess; or its output cannot be decoded as text (text=True) and
\* subprocess.run raises instead.
ChildExit(t, r, decoded) ==
    /\ pc[t] = "wait"
    /\ child[t] = "running"
    /\ r \in ChildResults
    /\ child' = [child EXCEPT ![t] = "exited"]
    /\ produced' = [produced EXCEPT ![t] = r]
    /\ IF decoded
       THEN /\ result' = [result EXCEPT ![t] = r]
            /\ UNCHANGED exc
       ELSE /\ exc' = [exc EXCEPT ![t] = "Exception"]
            /\ UNCHANGED result
    /\ pc' = [pc EXCEPT ![t] = AfterRun(req[t].endpoint)]
    /\ UNCHANGED << now, req, arrivals, used, body, package, unit, spawns, resp >>
    /\ UNCHANGED limiterVars

\* the wait given up without killing the child
LeaveChild(c) == c

\* subprocess.run kills the child when its timeout expires
KillChild(c) == IF c = "running" THEN "killed" ELSE c

\* subprocess.run without a timeout: the wait is never given up
NoDeadline(t) ==
    /\ pc[t] = "wait"
    /\ child[t] = "running"
    /\ FALSE
    /\ UNCHANGED vars

\* The timeout (30 s, 120 s) expires while the child runs: subprocess.run kills
\* the child, waits for it and raises TimeoutExpired.
Deadline(t) ==
    /\ pc[t] = "wait"
    /\ child[t] = "running"
    /\ child' = [child EXCEPT ![t] = KillChild(@)]
    /\ exc' = [exc EXCEPT ![t] = "TimeoutExpired"]
    /\ pc' = [pc EXCEPT ![t] = AfterRun(req[t].endpoint)]
    /\ UNCHANGED << now, req, arrivals, used, body, package, unit, spawns, produced, result, resp >>
    /\ UNCHANGED limiterVars

\* finally: if os.path.exists(temp_file): os.unlink(temp_file)
\* An unlink that faults replaces whatever the try block was leaving with.
ReleaseUnit(t, removed) ==
    /\ pc[t] = "release"
    /\ IF unit[t] = "exists"
       THEN IF removed
            THEN /\ unit' = [unit EXCEPT ![t] = "removed"]
                 /\ UNCHANGED exc
            ELSE /\ exc' = [exc EXCEPT ![t] = "Exception"]
                 /\ UNCHANGED unit
       ELSE UNCHANGED << unit, exc >>
    /\ pc' = [pc EXCEPT ![t] = "respond"]
    /\ UNCHANGED << now, req, arrivals, used, body, package, child, spawns, produced, result, resp >>
    /\ UNCHANGED limiterVars

\* what the transport layer makes of an exception that leaves the handler
UnhandledResp == [status |-> 500, body |-> "html", success |-> FALSE, output |-> "", errors |-> ""]

\* the handler without its except Exception clause
OutcomeNoCatchAll(ep, e, r) ==
    IF e = "none" THEN ResultResp(r)
    ELSE IF e = "TimeoutExpired" THEN TimeoutResp(ep)
    ELSE UnhandledResp

\* What leaves the handler: the return after subprocess.run, or one of the two
\* except clauses.
Outcome(ep, e, r) ==
    IF e = "none" THEN ResultResp(r)
    ELSE IF e = "TimeoutExpired" THEN TimeoutResp(ep)
    ELSE ServerErrorResp

Respond(t) ==
    /\ pc[t] = "respond"
    /\ resp' = [resp EXCEPT ![t] = Outcome(req[t].endpoint, exc[t], result[t])]
    /\ pc' = [pc EXCEPT ![t] = "done"]
    /\ UNCHANGED << now, req, arrivals, used, body, package, unit, child, spawns, produced, result, exc >>
    /\ UNCHANGED limiterVars

\* the response is sent and the thread is free for the next request
Retire(t) ==
    /\ pc[t] = "done"
    /\ pc' = [pc EXCEPT ![t] = "idle"]
    /\ req' = [req EXCEPT ![t] = NoReq]
    /\ current_time' = [current_time EXCEPT ![t] = 0]
    /\ body' = [body EXCEPT ![t] = NoBody]
    /\ package' = [package EXCEPT ![t] = << >>]
    /\ unit' = [unit EXCEPT ![t] = "none"]
    /\ child' = [child EXCEPT ![t] = "none"]
    /\ spawns' = [spawns EXCEPT ![t] = 0]
    /\ produced' = [produced EXCEPT ![t] = NoResult]
    /\ result' = [result EXCEPT ![t] = NoResult]
    /\ exc' = [exc EXCEPT ![t] = "none"]
    /\ resp' = [resp EXCEPT ![t] = NoResp]
    /\ admit' = [admit EXCEPT ![t] = "pending"]
    /\ slots' = [slots EXCEPT ![t] = 0]
    /\ UNCHANGED << now, arrivals, used, rate_limit_cache, pruned, log >>

\* the steps of a request that take no input
Step(t) ==
    \/ RLInit(t)
    \/ RLSetKey(t)
    \/ RLPrune(t)
    \/ RLAssign(t)
    \/ RLCheck(t)
    \/ RLAppend(t)
    \/ Deadline(t)
    \/ Respond(t)
    \/ Retire(t)

(***************************************************************************)
(* The requests of one client served one at a time, with every input of    *)
(* the handlers.  The handlers read and write nothing but their own        *)
(* request's state, so what they do with an input does not depend on the   *)
(* other threads, and the decorator keys the dictionary by the client's    *)
(* address, so one client's requests meet no other client's timestamps.    *)
(***************************************************************************)
Next ==
    \/ Tick
    \/ \E t \in Threads, c \in OneClient, ep \in Endpoints, m \in Methods :
          /\ arrivals < MaxArrivals
          /\ \A u \in Threads : pc[u] = "idle"
          /\ Arrive(t, c, ep, m)
    \/ \E t \in Threads : Step(t)
    \/ \E t \in Threads : \E b \in Bodies("run") \cup Bodies("install") : HandlerEntry(t, b)
    \/ \E t \in Threads, fault \in {"none", "create", "write"} : AcquireUnit(t, fault)
    \/ \E t \in Threads, started \in BOOLEAN : Spawn(t, started)
    \/ \E t \in Threads, r \in ChildResults, decoded \in BOOLEAN : ChildExit(t, r, decoded)
    \/ \E t \in Threads, removed \in BOOLEAN : ReleaseUnit(t, removed)

Spec == Init /\ [][Next]_vars

\* The steps a worker thread takes by itself: a thread that can go on does go
\* on (each request has a thread of its own), whatever the body it reads and
\* whether or not a file operation or the start of the child faults.
Advance(t) ==
    \/ RLInit(t)
    \/ RLSetKey(t)
    \/ RLPrune(t)
    \/ RLAssign(t)
    \/ RLCheck(t)
    \/ RLAppend(t)
    \/ \E b \in Bodies("run") \cup Bodies("install") : HandlerEntry(t, b)
    \/ \E fault \in {"none", "create", "write"} : AcquireUnit(t, fault)
    \/ \E started \in BOOLEAN : Spawn(t, started)
    \/ \E removed \in BOOLEAN : ReleaseUnit(t, removed)
    \/ Respond(t)

\* A child may run for ever; the timeout of subprocess.run does expire.
SpecFair ==
    /\ Init
    /\ [][Next]_vars
    /\ \A t \in Threads : WF_vars(Advance(t)) /\ WF_vars(Deadline(t))

(***************************************************************************)
(* Requests served by concurrent threads (app.run(threaded=True)), every   *)
(* step of one interleaved with the steps of the others.  The requests are *)
(* POST requests with well-formed bodies, and their children exit or time  *)
(* out.                                                                    *)
(***************************************************************************)
GoodBody == [json |-> "object", field |-> [kind |-> "str", val |-> <<"a">>]]

GoodResult == [returncode |-> 0, stdout |-> "out", stderr |-> ""]

NextThreaded ==
    \/ Tick
    \/ \E t \in Threads, c \in Clients, ep \in Endpoints :
          /\ arrivals < MaxThreadedArrivals
          /\ Arrive(t, c, ep, "POST")
    \/ \E t \in Threads : Step(t)
    \/ \E t \in Threads : HandlerEntry(t, GoodBody)
    \/ \E t \in Threads : AcquireUnit(t, "none")
    \/ \E t \in Threads : Spawn(t, TRUE)
    \/ \E t \in Threads : ChildExit(t, GoodResult, TRUE)
    \/ \E t \in Threads : ReleaseUnit(t, TRUE)

SpecThreaded == Init /\ [][NextThreaded]_vars

(***************************************************************************)
(* Properties                                                              *)
(***************************************************************************)
\* requests of client c admitted under the policy of ep with a timestamp in lo..hi
RECURSIVE AdmittedBetween(_, _, _, _)
AdmittedBetween(c, ep, lo, hi) ==
    IF lo > hi THEN 0
    ELSE (IF lo \in Times THEN log[<<c, ep, lo>>] ELSE 0) + AdmittedBetween(c, ep, lo + 1, hi)

\* a thread that serves a POST request whose body the handler has read
Posted(t, ep) ==
    /\ req[t].endpoint = ep
    /\ req[t].method = "POST"
    /\ body[t] # NoBody

\* C1: with requests handled one at a time, for every client and each policy the
\* requests admitted under the policy with timestamps inside any interval of
\* length window (a..a+window-1 on the integer clock) number at most max_requests.
C1_SlidingWindowBound ==
    \A c \in Clients, ep \in Endpoints, a \in Times :
        AdmittedBetween(c, ep, a, a + Policy(ep).window - 1) <= Policy(ep).max_requests

\* C2: when every thread runs an admit-call for the same client and policy at
\* the same time, all of them having arrived while exactly K slots remained
\* (K less than the number of calls), exactly K of the calls are admitted.
C2_ConcurrentAdmitsExactlyK ==
    ( /\ \A t \in Threads : admit[t] # "pending"
      /\ \A t, u \in Threads :
            /\ req[t].client = req[u].client
            /\ req[t].endpoint = req[u].endpoint
            /\ current_time[t] = current_time[u]
            /\ slots[t] = slots[u]
      /\ \A t \in Threads : slots[t] >= 0 /\ slots[t] < NumThreads )
    => \A t \in Threads :
          Cardinality({u \in Threads : admit[u] = "admitted"}) = slots[t]

\* C3: the two policies keep separate state per client: what an admit-call
\* counts against its limit is exactly the requests admitted under its own
\* policy that are still inside its window, whatever calls under the other
\* policy did before.
C3_PoliciesKeepSeparateState ==
    \A t \in Threads :
        pc[t] = "rl_check" =>
            Len(rate_limit_cache[req[t].client]) =
                AdmittedBetween(req[t].client, req[t].endpoint,
                                current_time[t] - Policy(req[t].endpoint).window + 1,
                                current_time[t])

\* s has a character outside the class of the letters, digits, - _ . [ ]
HasForbidden(s) == \E i \in 1..Len(s) : s[i] \notin AllowedChars

\* an install request whose package field is a string
PackagePosted(t) ==
    /\ Posted(t, "install")
    /\ body[t].json = "object"
    /\ body[t].field.kind = "str"

\* the request of thread t ended with one of the validation errors for the
\* package name and never had a child
RejectedAsInvalid(t) ==
    /\ pc[t] = "done"
    /\ resp[t] \in { Json(200, FALSE, "", "Invalid package name"),
                     Json(200, FALSE, "", "No package name provided") }
    /\ child[t] = "none"
    /\ spawns[t] = 0

C5_UnitGoneAtRespond ==
    \A t \in Threads :
        pc[t] = "done" /\ req[t].endpoint = "run" => unit[t] # "exists"

\* the subprocess.run call of thread t is over
RunOver(t) == pc[t] \in {"release", "respond", "done"}

\* C6 as stated: a request whose child was still running when the deadline
\* fired gets success=false, output="", errors naming the timeout, and no
\* response exists while the child runs.
C6_TimeoutResult ==
    \A t \in Threads :
        /\ pc[t] = "done" => child[t] # "running"
        /\ pc[t] = "done" /\ child[t] = "killed" => resp[t] = TimeoutResp(req[t].endpoint)

\* C6 amended: the child is terminated before subprocess.run is over, so no
\* response exists while it runs; the result of a request whose deadline fired
\* is success=false, output="", and errors names the timeout unless removing
\* the temporary file faulted, in which case errors is the server error.
C6_TimeoutKillsChild ==
    \A t \in Threads :
        /\ RunOver(t) => child[t] # "running"
        /\ pc[t] = "done" /\ child[t] = "killed" =>
              resp[t] = IF unit[t] = "exists" THEN ServerErrorResp
                        ELSE TimeoutResp(req[t].endpoint)

C6_Witness ==
    \E t \in Threads :
        /\ pc[t] = "done"
        /\ child[t] = "killed"
        /\ resp[t] = Json(200, FALSE, "", "Execution timeout")

\* a run request whose body is an object with an empty or absent code field
EmptyCodePosted(t) ==
    /\ Posted(t, "run")
    /\ body[t].json = "object"
    /\ \/ body[t].field.kind = "missing"
       \/ body[t].field.kind = "str" /\ body[t].field.val = << >>

\* C7: an admitted run request whose code is empty or missing gets
\* success=false, output="" and the validation message; no temporary file is
\* created and no subprocess spawned for it.
C7_EmptyCodeRejected ==
    \A t \in Threads :
        EmptyCodePosted(t) =>
            /\ admit[t] = "admitted"
            /\ pc[t] = "done"
            /\ resp[t] = Json(200, FALSE, "", "No code provided")
            /\ unit[t] = "none"
            /\ child[t] = "none"
            /\ spawns[t] = 0

C7_Witness ==
    \E t \in Threads :
        /\ EmptyCodePosted(t)
        /\ body[t].field.kind = "str"
        /\ resp[t].errors = "No code provided"

\* the child of thread t exited by itself with status 0
ExitedZero(t) == child[t] = "exited" /\ produced[t].returncode = 0

\* C8 as stated: success is true if and only if a child was spawned and exited
\* with status 0 before the deadline; a child that exits with another status
\* gives success=false with its stdout and stderr unchanged.
C8_SuccessIffExitZero ==
    \A t \in Threads :
        pc[t] = "done" /\ req[t].method = "POST" =>
            /\ resp[t].success <=> ExitedZero(t)
            /\ child[t] = "exited" /\ produced[t].returncode # 0 =>
                  resp[t] = Json(200, FALSE, produced[t].stdout, produced[t].stderr)

\* C8 amended: success is true if and only if a child was spawned, exited with
\* status 0 before the deadline, and no fault followed (decoding its output,
\* removing the temporary file); a child that exits with another status, no
\* fault following, gives success=false with its stdout and stderr unchanged.
C8_SuccessIffExitZeroNoFault ==
    \A t \in Threads :
        pc[t] = "done" /\ req[t].method = "POST" =>
            /\ resp[t].success <=> (ExitedZero(t) /\ exc[t] = "none")
            /\ child[t] = "exited" /\ produced[t].returncode # 0 /\ exc[t] = "none" =>
                  resp[t] = Json(200, FALSE, produced[t].stdout, produced[t].stderr)

C8_Witness ==
    \E t \in Threads :
        /\ pc[t] = "done"
        /\ child[t] = "exited"
        /\ produced[t] = [returncode |-> 1, stdout |-> "out", stderr |-> "err"]
        /\ resp[t] = Json(200, FALSE, "out", "err")

\* C9: every admitted POST request ends with a JSON result that has success,
\* output and errors; a fault (malformed body, the temporary file not created,
\* written or removed, the child not spawned, its output not decoded) gives
\* success=false, output="" and the server error, and none leaves the handler.
C9_FaultsFolded ==
    \A t \in Threads :
        pc[t] = "done" /\ admit[t] = "admitted" /\ req[t].method = "POST" =>
            /\ resp[t].body = "json"
            /\ resp[t].status = 200
            /\ exc[t] = "Exception" => resp[t] = ServerErrorResp
            /\ body[t].json = "malformed" => resp[t] = ServerErrorResp
            /\ unit[t] = "exists" => resp[t] = ServerErrorResp

C9_Witness ==
    \E t \in Threads :
        /\ pc[t] = "done"
        /\ child[t] = "none"
        /\ unit[t] = "removed"
        /\ resp[t] = ServerErrorResp

\* C10: the response has status 429 if and only if the rate limiter rejected
\* the request; a rejected request reaches neither validation nor the temporary
\* file nor a child; an admitted request is answered without 429.
C10_Status429IffRejected ==
    \A t \in Threads :
        /\ resp[t].status = 429 <=> admit[t] = "rejected"
        /\ pc[t] = "done" => admit[t] # "pending"
        /\ admit[t] = "rejected" =>
              /\ pc[t] = "done"
              /\ body[t] = NoBody
              /\ unit[t] = "none"
              /\ child[t] = "none"
              /\ spawns[t] = 0

C10_Witness ==
    \E t \in Threads :
        /\ admit[t] = "rejected"
        /\ resp[t].status = 429

\* C11: a pre-flight (OPTIONS) request to either endpoint is answered with the
\* empty success response, without its body being read, in every state of the
\* rate limiter, the full window included.
C11_PreflightAlwaysEmpty ==
    \A t \in Threads :
        (pc[t] = "done" /\ req[t].method = "OPTIONS") =>
            /\ resp[t] = EmptyResp
            /\ body[t] = NoBody

\* the requests admitted for the client and under the policy of thread t's
\* request with a timestamp x such that current_time - x < window (the request
\* of t itself included once it is admitted)
AdmittedInWindow(t) ==
    AdmittedBetween(req[t].client, req[t].endpoint,
                    current_time[t] - Policy(req[t].endpoint).window + 1,
                    current_time[t])

\* C12: with requests handled one at a time and a history of calls under one
\* policy only, a call is admitted if and only if fewer than max_requests of
\* the calls admitted before it have a timestamp inside the window, and a
\* rejected call records nothing: the client's list holds exactly the admitted
\* timestamps of the window.
C12_AdmittedIffRoom ==
    \A t \in Threads :
        (admit[t] # "pending" /\ used = {req[t].endpoint}) =>
            /\ admit[t] = "admitted" =>
                  AdmittedInWindow(t) - 1 < Policy(req[t].endpoint).max_requests
            /\ admit[t] = "rejected" =>
                  AdmittedInWindow(t) >= Policy(req[t].endpoint).max_requests
            /\ Len(rate_limit_cache[req[t].client]) = AdmittedInWindow(t)

\* a request admitted after an earlier one of the same policy was rejected
C12_Witness ==
    \E t \in Threads :
        /\ admit[t] = "admitted"
        /\ used = {req[t].endpoint}
        /\ AdmittedBetween(req[t].client, req[t].endpoint, 0, MaxTime) < arrivals

\* the request of thread t passed the validation of its handler
Validated(t) ==
    /\ admit[t] = "admitted"
    /\ req[t].method = "POST"
    /\ body[t] # NoBody
    /\ body[t].json = "object"
    /\ req[t].endpoint = "run" => Truthy(GetField(body[t]))
    /\ req[t].endpoint = "install" =>
          /\ GetField(body[t]).kind = "str"
          /\ package[t] = Strip(GetField(body[t]).val)
          /\ package[t] # << >>
          /\ ReMatch(package[t])

\* C13: the steps of a request come in the order rate check, validation,
\* temporary file, child, removal of the file, response: inside the decorator
\* nothing of the handler has happened; a temporary file or a child exists only
\* for a request that passed validation; a run child only ever runs while the
\* file exists, and the file is removed only after the child is over and before
\* the response; the response comes after the child is over; an install
\* request never has a temporary file.
C13_StepOrder ==
    \A t \in Threads :
        /\ pc[t] \in {"idle", "rl_init", "rl_setkey", "rl_prune", "rl_assign", "rl_check", "rl_append"} =>
              body[t] = NoBody /\ unit[t] = "none" /\ child[t] = "none"
        /\ (unit[t] # "none" \/ child[t] # "none" \/ spawns[t] > 0) => Validated(t)
        /\ (child[t] # "none" /\ req[t].endpoint = "run") => unit[t] # "none"
        /\ (child[t] = "running" /\ req[t].endpoint = "run") => unit[t] = "exists"
        /\ unit[t] = "removed" => pc[t] \in {"respond", "done"}
        /\ pc[t] \in {"release", "respond", "done"} => child[t] # "running"
        /\ req[t].endpoint = "install" => unit[t] = "none"

\* a run request answered after its child was over and its file removed
C13_Witness ==
    \E t \in Threads :
        /\ pc[t] = "done"
        /\ req[t].endpoint = "run"
        /\ child[t] \in {"exited", "killed"}
        /\ unit[t] = "removed"

\* C14: every request that has arrived is eventually answered, its answer is
\* given once (it does not change until the thread is free again), and it has
\* at most one child: no outcome of the child or of its start leads to a
\* second spawn.
C14_RespondsOnceOneChild ==
    /\ \A t \in Threads : (pc[t] # "idle") ~> (pc[t] = "done")
    /\ [][\A t \in Threads :
            /\ resp[t] # NoResp => (resp'[t] = resp[t] \/ pc'[t] = "idle")
            /\ resp'[t] # NoResp => pc'[t] = "done"
            /\ spawns'[t] <= 1]_vars

\* a request answered after the deadline ended the wait for its child
C14_Witness ==
    \E t \in Threads :
        /\ pc[t] = "done"
        /\ spawns[t] = 1
        /\ child[t] = "killed"
        /\ resp[t] # NoResp

\* the requests of client c admitted so far, under either policy
AdmittedEver(c) ==
    AdmittedBetween(c, "run", 0, MaxTime) + AdmittedBetween(c, "install", 0, MaxTime)

\* C15: under every interleaving, the timestamp list of a client is created or
\* changed only by a step of a thread that serves a request of that client,
\* and a request is rejected only when its own client has had at least
\* max_requests requests admitted: calls for another address neither touch
\* the list nor cause the rejection.
C15_ClientsDoNotInterfere ==
    /\ [](\A t \in Threads :
              admit[t] = "rejected" =>
                  AdmittedEver(req[t].client) >= Policy(req[t].endpoint).max_requests)
    /\ [][\A c \in Clients :
              ( /\ c \in DOMAIN rate_limit_cache'
                /\ (c \in DOMAIN rate_limit_cache => rate_limit_cache'[c] # rate_limit_cache[c]) )
              => \E t \in Threads :
                    /\ req[t].client = c
                    /\ pc[t] \in {"rl_setkey", "rl_assign", "rl_append"}
                    /\ pc'[t] # pc[t]]_vars

\* a request of one client admitted while a request of the other client,
\* whose list holds a timestamp already, is inside the decorator
C15_Witness ==
    \E t, u \in Threads :
        /\ admit[t] = "admitted"
        /\ req[u].client \notin {"", req[t].client}
        /\ req[u].client \in DOMAIN rate_limit_cache
        /\ rate_limit_cache[req[u].client] # << >>
        /\ rate_limit_cache[req[t].client] # << >>
        /\ pc[u] \in {"rl_prune", "rl_assign", "rl_check", "rl_append"}

\* how often x occurs in the sequence s
RECURSIVE Count(_, _)
Count(s, x) ==
    IF s = << >> THEN 0
    ELSE (IF Head(s) = x THEN 1 ELSE 0) + Count(Tail(s), x)

\* some thread is between the entry of the decorator and its return or its
\* call of the handler
InDecorator ==
    \E t \in Threads :
        pc[t] \in {"rl_init", "rl_setkey", "rl_prune", "rl_assign", "rl_check", "rl_append"}

\* C16: once every admit-call has returned, the list of a client holds an entry
\* for every admitted request whose timestamp is still inside the window (the
\* shorter of the two windows, inside which neither policy's prune removes a
\* timestamp).
C16_NoAdmittedTimestampLost ==
    ~InDecorator =>
        \A c \in DOMAIN rate_limit_cache, x \in Times :
            now - x < RunWindow =>
                Count(rate_limit_cache[c], x) >= log[<<c, "run", x>>] + log[<<c, "install", x>>]

\* C17: with requests handled one at a time, a request that passed the rate
\* check has its timestamp in its client's list from before its handler runs
\* until it is answered and after, once for every request admitted at that
\* timestamp, whatever the handler does: no outcome of the handler takes the
\* timestamp back, and no request is in its handler without one.
C17_SlotConsumedAtAdmission ==
    \A t \in Threads :
        /\ admit[t] = "admitted" =>
              /\ Count(rate_limit_cache[req[t].client], current_time[t]) >= 1
              /\ Count(rate_limit_cache[req[t].client], current_time[t]) =
                    log[<<req[t].client, "run", current_time[t]>>]
                      + log[<<req[t].client, "install", current_time[t]>>]
        /\ pc[t] \in {"handler", "acquire", "spawn", "wait", "release", "respond"} =>
              admit[t] = "admitted"
        /\ (pc[t] = "done" /\ resp[t].status # 429) => admit[t] = "admitted"

\* a request answered with a validation error, which never had a child, and
\* whose timestamp is in the list
C17_Witness ==
    \E t \in Threads :
        /\ pc[t] = "done"
        /\ admit[t] = "admitted"
        /\ resp[t].errors \in {"No code provided", "Invalid package name"}
        /\ spawns[t] = 0
        /\ Count(rate_limit_cache[req[t].client], current_time[t]) >= 1

====
